---- MODULE Spec2Model ----
(***************************************************************************)
(* Client-side assessment session protocol of GRH-BOT.                     *)
(*                                                                         *)
(* The sources hold two versions of the widget, and the older one opens    *)
(* the quiz in a modal of its own:                                         *)
(*   variant = "chat"   : the newer ChatbotWidget with the inline,         *)
(*                        chat-driven assessment (App.jsx 424-1121);       *)
(*   variant = "legacy" : the chat of the older ChatbotWidget              *)
(*                        (App.jsx 75-423);                                *)
(*   variant = "modal"  : the PsychometricQuiz modal that the older        *)
(*                        widget mounts (PsychometricQuiz.jsx).            *)
(* The chat of the older widget and its modal share no state, so each is   *)
(* explored on its own.                                                    *)
(*                                                                         *)
(* React semantics: an event handler, a timer callback and the code        *)
(* between two awaits of an async handler each run to completion, so each  *)
(* is one action.  A handler reads the state of the render it was created  *)
(* in: user events see the current state, while the continuation of an     *)
(* async handler still sees the state captured when the handler started.   *)
(* Strings are sequences of one-character strings.                         *)
(***************************************************************************)
EXTENDS Integers, Sequences, FiniteSets, Bags, TLC

VARIABLES
    variant,          \* which widget is explored: "chat", "legacy" or "modal"
    loading,          \* chat, legacy: useState(false)
    messagesLen,      \* chat, legacy: messages.length, lengths >= MaxMsgs identified
    assessmentState,  \* chat: the assessmentState record
    inflight,         \* chat, legacy: bag of requests awaiting their response
    timers,           \* chat, legacy: bag of pending setTimeout callbacks
    unanswered,       \* chat: ids of the displayed prompts that have no answer
    evalIssued,       \* chat: evaluate requests issued since the last start
    last,             \* the handler that ran last, and what it was given
    step,             \* modal: 'setup' | 'quiz' | 'results'
    quizData,         \* modal: total_questions of the start response, 0 = null
    currentQuestion,  \* modal: question_num of the displayed question, 0 = null
    selectedAnswer,   \* modal: option index, -1 = null
    questionNum,      \* modal: 1-based counter
    results,          \* modal: "null" | "scored"
    quizLoading,      \* modal: useState(false)
    sessionId,        \* modal: session id, "null" = null
    quizInflight,     \* modal: bag of requests awaiting their response
    resultsIssued     \* modal: results requests issued since the last start

chatVars == <<loading, messagesLen, assessmentState, inflight, timers,
              unanswered, evalIssued>>
quizVars == <<step, quizData, currentQuestion, selectedAnswer, questionNum,
              results, quizLoading, sessionId, quizInflight, resultsIssued>>
vars == <<variant, last, chatVars, quizVars>>

----------------------------------------------------------------------------
(* Bounds *)

MaxMsgs == 2          \* messages.length is only ever compared with 1
MaxInFlight == 2      \* requests awaiting a response at the same time
MaxTimers == 2        \* pending timer callbacks at the same time
MaxQuestions == 2     \* longest question list the backend returns
MaxEval == 2          \* evaluate requests counted per assessment run
MaxResults == 2       \* results requests counted per quiz run

Null == "null"
Min(a, b) == IF a < b THEN a ELSE b

----------------------------------------------------------------------------
(* Strings *)

LowerChars == <<"a","b","c","d","e","f","g","h","i","j","k","l","m",
                "n","o","p","q","r","s","t","u","v","w","x","y","z">>
UpperChars == <<"A","B","C","D","E","F","G","H","I","J","K","L","M",
                "N","O","P","Q","R","S","T","U","V","W","X","Y","Z">>
DigitChars == <<"0","1","2","3","4","5","6","7","8","9">>

IndexIn(c, chars) ==
    IF \E i \in 1..Len(chars) : chars[i] = c
    THEN CHOOSE i \in 1..Len(chars) : chars[i] = c
    ELSE 0

\* String.prototype.toLowerCase, character by character
toLowerCase(s) ==
    [i \in 1..Len(s) |->
        IF IndexIn(s[i], UpperChars) > 0
        THEN LowerChars[IndexIn(s[i], UpperChars)] ELSE s[i]]

\* String.prototype.toUpperCase, character by character
toUpperCase(s) ==
    [i \in 1..Len(s) |->
        IF IndexIn(s[i], LowerChars) > 0
        THEN UpperChars[IndexIn(s[i], LowerChars)] ELSE s[i]]

\* String.prototype.includes: t occurs in s as a contiguous substring
includes(s, t) ==
    \E i \in 0..(Len(s) - Len(t)) : SubSeq(s, i + 1, i + Len(t)) = t

IsSpace(c) == c = " "

\* number of leading white-space characters
RECURSIVE LeadingSpaces(_)
LeadingSpaces(s) ==
    IF s # <<>> /\ IsSpace(Head(s)) THEN 1 + LeadingSpaces(Tail(s)) ELSE 0

\* String.prototype.trim() === "" : the string has only white space
IsBlank(s) == LeadingSpaces(s) = Len(s)

\* number of trailing white-space characters
RECURSIVE TrailingSpaces(_)
TrailingSpaces(s) ==
    IF s # <<>> /\ IsSpace(s[Len(s)])
    THEN 1 + TrailingSpaces(SubSeq(s, 1, Len(s) - 1)) ELSE 0

\* String.prototype.trim
trim(s) ==
    IF IsBlank(s) THEN <<>>
    ELSE SubSeq(s, LeadingSpaces(s) + 1, Len(s) - TrailingSpaces(s))

\* value of the longest prefix of decimal digits, most significant first
RECURSIVE DigitsValue(_, _)
DigitsValue(s, acc) ==
    IF s # <<>> /\ IndexIn(Head(s), DigitChars) > 0
    THEN DigitsValue(Tail(s), 10 * acc + (IndexIn(Head(s), DigitChars) - 1))
    ELSE acc

\* parseInt(input): skip white space, an optional sign, then decimal digits;
\* NaN when no digit follows
parseInt(s) ==
    LET t == SubSeq(s, LeadingSpaces(s) + 1, Len(s))
        signed == t # <<>> /\ Head(t) \in {"+", "-"}
        u == IF signed THEN Tail(t) ELSE t
        hasDigit == u # <<>> /\ IndexIn(Head(u), DigitChars) > 0
        v == DigitsValue(u, 0)
    IN  [nan |-> ~hasDigit,
         val |-> IF ~hasDigit THEN 0
                 ELSE IF signed /\ Head(t) = "-" THEN 0 - v ELSE v]

----------------------------------------------------------------------------
(* Domain resolution, handleDomainSelection lines 628-640 *)

domains == <<"Computer Science", "Biology", "Physics", "Chemistry",
             "Social Sciences">>

domainChars ==
    << <<"C","o","m","p","u","t","e","r"," ","S","c","i","e","n","c","e">>,
       <<"B","i","o","l","o","g","y">>,
       <<"P","h","y","s","i","c","s">>,
       <<"C","h","e","m","i","s","t","r","y">>,
       <<"S","o","c","i","a","l"," ","S","c","i","e","n","c","e","s">> >>

\* the predicate handed to domains.find
DomainMatches(i, input) ==
    \/ includes(toLowerCase(domainChars[i]), toLowerCase(input))
    \/ includes(toLowerCase(input), toLowerCase(domainChars[i]))

\* variant of FindDomain that returns the last match in list order
FindDomain_LastMatch(input) ==
    IF \E i \in 1..Len(domains) : DomainMatches(i, input)
    THEN CHOOSE i \in 1..Len(domains) :
            /\ DomainMatches(i, input)
            /\ \A j \in (i + 1)..Len(domains) : ~DomainMatches(j, input)
    ELSE 0

\* domains.find(...): the first match in list order, 0 when there is none
FindDomain(input) ==
    IF \E i \in 1..Len(domains) : DomainMatches(i, input)
    THEN CHOOSE i \in 1..Len(domains) :
            /\ DomainMatches(i, input)
            /\ \A j \in 1..(i - 1) : ~DomainMatches(j, input)
    ELSE 0

\* variant of resolveDomainIndex that reads domains[num] for domains[num - 1]
resolveDomainIndex_OffByOne(input) ==
    LET num == parseInt(input)
    IN  IF ~num.nan /\ num.val >= 1 /\ num.val <= Len(domains)
        THEN IF num.val + 1 <= Len(domains) THEN num.val + 1 ELSE 0
        ELSE FindDomain(input)

\* index of the selected domain, 0 when selectedDomain is null/undefined
resolveDomainIndex(input) ==
    LET num == parseInt(input)
    IN  IF ~num.nan /\ num.val >= 1 /\ num.val <= Len(domains)
        THEN num.val
        ELSE FindDomain(input)

resolveDomain(input) ==
    IF resolveDomainIndex(input) = 0 THEN Null
    ELSE domains[resolveDomainIndex(input)]

----------------------------------------------------------------------------
(* Inputs and backend payloads *)

\* stands for the JavaScript value undefined of a missing questions field;
\* no question has id 0
Undefined == <<0>>

\* a question list is the sequence of the ids of its questions; the backend
\* returns an empty list or one of MaxQuestions questions
QuestionList(base, n) == [i \in 1..n |-> base + i]
MindsetLists == {QuestionList(0, n) : n \in {0, MaxQuestions}}
DomainLists == {QuestionList(10, n) : n \in {0, MaxQuestions}}

\* what the user may have typed when sendMessage runs, by the phase it is
\* typed in: nothing, white space, an option letter, a domain number, and
\* text that is neither
MindsetInputs == { <<>>, <<" ">>, <<"a">> }
DomainInputs == { <<>>, <<"3">>, <<"x","y","z">> }
DomainTestInputs == { <<>>, <<"x","y">> }
AskInputs == { <<>>, <<" ">>, <<"h","i">> }

InputsFor(st) ==
    IF ~st.active THEN AskInputs
    ELSE IF st.phase = "mindset" THEN MindsetInputs
    ELSE IF st.phase = "domain-selection" THEN DomainInputs
    ELSE DomainTestInputs

----------------------------------------------------------------------------
(* ChatbotWidget (newer), App.jsx 428-899 *)

\* useState initial value, lines 440-449
InitialAssessmentState ==
    [active |-> FALSE, phase |-> Null, currentQuestion |-> 0,
     questions |-> <<>>, answers |-> <<>>, selectedDomain |-> Null,
     mindsetAnswers |-> <<>>, domainAnswers |-> <<>>]

\* setMessages(prev => [...prev, m]) applied n times
Appended(n) == Min(messagesLen + n, MaxMsgs)

Request(kind, captured, body) ==
    [kind |-> kind, captured |-> captured, body |-> body]
NoBody == [mindset_answers |-> <<>>, domain |-> Null, domain_answers |-> <<>>]

Timer(kind, questions, index) ==
    [kind |-> kind, questions |-> questions, index |-> index]

CanIssue == BagCardinality(inflight) < MaxInFlight
CanSetTimer == BagCardinality(timers) < MaxTimers

\* what is remembered of the handler that ran last: its name, the text it
\* was given, the phase it started in, the messages it appended, the requests
\* it issued, and how it ended: "done", "returned" (an early return),
\* "caught" (its catch block ran), "refused" (a body without the success
\* flag) or "threw" (an exception left the handler)
Ran(op, input, appended, issued, outcome) ==
    [op |-> op, input |-> input, phase |-> assessmentState.phase,
     appended |-> appended, issued |-> issued, outcome |-> outcome]

\* {...answers, [questionId]: value}
Record(answers, questionId, value) == (questionId :> value) @@ answers

\* the state holds an answer for the question with this id
HasAnswer(st, questionId) ==
    questionId \in (DOMAIN st.mindsetAnswers) \cup (DOMAIN st.domainAnswers)

\* the start button is rendered while messages.length === 1 && !loading
\* (lines 1022, 1049); lines 483-494 up to the await
startAssessment ==
    /\ variant = "chat"
    /\ messagesLen = 1 /\ ~loading
    /\ CanIssue
    /\ loading' = TRUE
    /\ messagesLen' = Appended(1)
    /\ inflight' = inflight (+) SetToBag({Request("start", InitialAssessmentState, NoBody)})
    /\ evalIssued' = 0
    /\ last' = Ran("startAssessment", <<>>, 1, 1, "done")
    /\ UNCHANGED <<variant, assessmentState, timers, unanswered, quizVars>>

\* variant of startAssessmentResume without the setLoading(false) of line 529
startAssessmentResume_KeepsLoading(ok, questions) ==
    /\ variant = "chat"
    /\ \E r \in BagToSet(inflight) :
        /\ r.kind = "start"
        /\ inflight' = inflight (-) SetToBag({r})
    /\ IF ok
       THEN /\ CanSetTimer
            /\ assessmentState' =
                   [active |-> TRUE, phase |-> "mindset", currentQuestion |-> 0,
                    questions |-> questions, answers |-> <<>>,
                    selectedDomain |-> Null, mindsetAnswers |-> <<>>,
                    domainAnswers |-> <<>>]
            /\ timers' = timers (+) SetToBag({Timer("askQuestion", questions, 0)})
       ELSE UNCHANGED <<assessmentState, timers>>
    /\ messagesLen' = Appended(1)
    /\ UNCHANGED loading
    /\ last' = Ran("startAssessmentResume", <<>>, 1, 0,
                   IF ok THEN "done" ELSE "caught")
    /\ UNCHANGED <<variant, unanswered, evalIssued, quizVars>>

\* lines 495-529: the response of /api/assessment/start.  ok = FALSE is a
\* rejected fetch or an unparsable body; otherwise questions is data.questions
startAssessmentResume(ok, questions) ==
    /\ variant = "chat"
    /\ \E r \in BagToSet(inflight) :
        /\ r.kind = "start"
        /\ inflight' = inflight (-) SetToBag({r})
    /\ IF ok
       THEN /\ CanSetTimer
            /\ assessmentState' =
                   [active |-> TRUE, phase |-> "mindset", currentQuestion |-> 0,
                    questions |-> questions, answers |-> <<>>,
                    selectedDomain |-> Null, mindsetAnswers |-> <<>>,
                    domainAnswers |-> <<>>]
            /\ timers' = timers (+) SetToBag({Timer("askQuestion", questions, 0)})
       ELSE UNCHANGED <<assessmentState, timers>>
    /\ messagesLen' = Appended(1)
    /\ loading' = FALSE
    /\ last' = Ran("startAssessmentResume", <<>>, 1, 0,
                   IF ok THEN "done" ELSE "caught")
    /\ UNCHANGED <<variant, unanswered, evalIssued, quizVars>>

\* lines 532-550, run by a timer set at 516, 577, 687 or 728
askQuestion ==
    /\ variant = "chat"
    /\ \E t \in BagToSet(timers) :
        /\ t.kind = "askQuestion"
        /\ timers' = timers (-) SetToBag({t})
        /\ IF t.questions = Undefined
           THEN \* questions.length of undefined throws in the callback
                /\ UNCHANGED <<messagesLen, unanswered>>
                /\ last' = Ran("askQuestion", <<>>, 0, 0, "threw")
           ELSE IF t.index < Len(t.questions)
           THEN /\ messagesLen' = Appended(1)
                /\ unanswered' =
                       IF HasAnswer(assessmentState, t.questions[t.index + 1])
                       THEN unanswered
                       ELSE unanswered \cup {t.questions[t.index + 1]}
                /\ last' = Ran("askQuestion", <<>>, 1, 0, "done")
           ELSE /\ UNCHANGED <<messagesLen, unanswered>>
                /\ last' = Ran("askQuestion", <<>>, 0, 0, "done")
    /\ UNCHANGED <<variant, loading, assessmentState, inflight, evalIssued,
                   quizVars>>

\* questions[currentQuestion].id throws when questions is undefined or has
\* no element at the index (lines 554, 705)
NoCurrentQuestion(st) ==
    \/ st.questions = Undefined
    \/ st.currentQuestion >= Len(st.questions)

\* variant of handleMindsetAnswer that builds newAnswers without spreading
\* mindsetAnswers
handleMindsetAnswer_DropsAnswers(answer) ==
    LET questions == assessmentState.questions
        cur == assessmentState.currentQuestion
        questionId == questions[cur + 1]
        newAnswers == Record(<<>>, questionId, toUpperCase(answer))
        nextQuestion == cur + 1
    IN  IF NoCurrentQuestion(assessmentState)
        THEN /\ UNCHANGED chatVars
             /\ last' = Ran("handleMindsetAnswer", answer, 0, 0, "threw")
        ELSE /\ CanSetTimer
             /\ messagesLen' = Appended(1)
             /\ unanswered' = unanswered \ {questionId}
             /\ IF nextQuestion < Len(questions)
                THEN /\ assessmentState' =
                            [assessmentState EXCEPT
                                !.currentQuestion = nextQuestion,
                                !.mindsetAnswers = newAnswers]
                     /\ timers' = timers (+)
                            SetToBag({Timer("askQuestion", questions, nextQuestion)})
                ELSE /\ assessmentState' =
                            [assessmentState EXCEPT
                                !.mindsetAnswers = newAnswers,
                                !.phase = "domain-selection"]
                     /\ timers' = timers (+)
                            SetToBag({Timer("showDomainSelection", <<>>, 0)})
             /\ last' = Ran("handleMindsetAnswer", answer, 1, 0, "done")
             /\ UNCHANGED <<loading, inflight, evalIssued>>

\* lines 552-591
handleMindsetAnswer(answer) ==
    LET questions == assessmentState.questions
        cur == assessmentState.currentQuestion
        questionId == questions[cur + 1]
        newAnswers == Record(assessmentState.mindsetAnswers, questionId,
                             toUpperCase(answer))
        nextQuestion == cur + 1
    IN  IF NoCurrentQuestion(assessmentState)
        THEN /\ UNCHANGED chatVars
             /\ last' = Ran("handleMindsetAnswer", answer, 0, 0, "threw")
        ELSE /\ CanSetTimer
             /\ messagesLen' = Appended(1)
             /\ unanswered' = unanswered \ {questionId}
             /\ IF nextQuestion < Len(questions)
                THEN /\ assessmentState' =
                            [assessmentState EXCEPT
                                !.currentQuestion = nextQuestion,
                                !.mindsetAnswers = newAnswers]
                     /\ timers' = timers (+)
                            SetToBag({Timer("askQuestion", questions, nextQuestion)})
                ELSE /\ assessmentState' =
                            [assessmentState EXCEPT
                                !.mindsetAnswers = newAnswers,
                                !.phase = "domain-selection"]
                     /\ timers' = timers (+)
                            SetToBag({Timer("showDomainSelection", <<>>, 0)})
             /\ last' = Ran("handleMindsetAnswer", answer, 1, 0, "done")
             /\ UNCHANGED <<loading, inflight, evalIssued>>

\* lines 593-604 up to the await, run by the timer set at line 587
showDomainSelection ==
    /\ variant = "chat"
    /\ CanIssue
    /\ \E t \in BagToSet(timers) :
        /\ t.kind = "showDomainSelection"
        /\ timers' = timers (-) SetToBag({t})
    /\ loading' = TRUE
    /\ messagesLen' = Appended(1)
    /\ inflight' = inflight (+)
            SetToBag({Request("domains", InitialAssessmentState, NoBody)})
    /\ last' = Ran("showDomainSelection", <<>>, 1, 1, "done")
    /\ UNCHANGED <<variant, assessmentState, unanswered, evalIssued, quizVars>>

\* variant of showDomainSelectionResume whose catch block sends the request
\* again
showDomainSelectionResume_Retries(ok) ==
    /\ variant = "chat"
    /\ \E r \in BagToSet(inflight) :
        /\ r.kind = "domains"
        /\ inflight' = IF ok THEN inflight (-) SetToBag({r}) ELSE inflight
    /\ messagesLen' = Appended(1)
    /\ loading' = ok
    /\ last' = Ran("showDomainSelectionResume", <<>>, 1, IF ok THEN 0 ELSE 1,
                   IF ok THEN "done" ELSE "caught")
    /\ UNCHANGED <<variant, assessmentState, timers, unanswered, evalIssued, quizVars>>

\* lines 605-625: the response of /api/assessment/domains; a rejected fetch
\* and a body without domains both end in the catch block
showDomainSelectionResume(ok) ==
    /\ variant = "chat"
    /\ \E r \in BagToSet(inflight) :
        /\ r.kind = "domains"
        /\ inflight' = inflight (-) SetToBag({r})
    /\ messagesLen' = Appended(1)
    /\ loading' = FALSE
    /\ last' = Ran("showDomainSelectionResume", <<>>, 1, 0,
                   IF ok THEN "done" ELSE "caught")
    /\ UNCHANGED <<variant, assessmentState, timers, unanswered, evalIssued, quizVars>>

\* variant of handleDomainSelection that sets loading before it resolves
\* the input
handleDomainSelection_LoadsFirst(input) ==
    LET selectedDomain == resolveDomain(input)
    IN  IF selectedDomain = Null
        THEN /\ messagesLen' = Appended(1)
             /\ loading' = TRUE
             /\ last' = Ran("handleDomainSelection", input, 1, 0, "returned")
             /\ UNCHANGED <<assessmentState, inflight, timers,
                            unanswered, evalIssued>>
        ELSE /\ CanIssue
             /\ messagesLen' = Appended(1)
             /\ loading' = TRUE
             /\ inflight' = inflight (+)
                    SetToBag({Request("domain-questions", assessmentState,
                                      [NoBody EXCEPT !.domain = selectedDomain])})
             /\ last' = Ran("handleDomainSelection", input, 1, 1, "done")
             /\ UNCHANGED <<assessmentState, timers, unanswered, evalIssued>>

\* lines 627-666 up to the await
handleDomainSelection(input) ==
    LET selectedDomain == resolveDomain(input)
    IN  IF selectedDomain = Null
        THEN /\ messagesLen' = Appended(1)
             /\ last' = Ran("handleDomainSelection", input, 1, 0, "returned")
             /\ UNCHANGED <<loading, assessmentState, inflight, timers,
                            unanswered, evalIssued>>
        ELSE /\ CanIssue
             /\ messagesLen' = Appended(1)
             /\ loading' = TRUE
             /\ inflight' = inflight (+)
                    SetToBag({Request("domain-questions", assessmentState,
                                      [NoBody EXCEPT !.domain = selectedDomain])})
             /\ last' = Ran("handleDomainSelection", input, 1, 1, "done")
             /\ UNCHANGED <<assessmentState, timers, unanswered, evalIssued>>

\* lines 668-701: the response of /api/assessment/domain-questions; the
\* spread at line 671 copies the state the handler was started with
handleDomainSelectionResume(ok, questions) ==
    /\ variant = "chat"
    /\ \E r \in BagToSet(inflight) :
        /\ r.kind = "domain-questions"
        /\ inflight' = inflight (-) SetToBag({r})
        /\ IF ok
           THEN /\ CanSetTimer
                /\ assessmentState' =
                       [r.captured EXCEPT
                            !.phase = "domain-test",
                            !.selectedDomain = r.body.domain,
                            !.currentQuestion = 0,
                            !.questions = questions,
                            !.domainAnswers = <<>>]
                /\ timers' = timers (+)
                       SetToBag({Timer("askQuestion", questions, 0)})
           ELSE UNCHANGED <<assessmentState, timers>>
    /\ messagesLen' = Appended(1)
    /\ loading' = FALSE
    /\ last' = Ran("handleDomainSelectionResume", <<>>, 1, 0,
                   IF ok THEN "done" ELSE "caught")
    /\ UNCHANGED <<variant, unanswered, evalIssued, quizVars>>

\* variant of submitCompleteAssessment that reads the domain answers from the
\* state of the render, which lacks the answer just given
submitCompleteAssessment_StateAnswers(answer, domainAnswers) ==
    /\ CanIssue
    /\ evalIssued < MaxEval
    /\ evalIssued' = evalIssued + 1
    /\ loading' = TRUE
    /\ messagesLen' = Appended(2)
    /\ inflight' = inflight (+)
            SetToBag({Request("evaluate", InitialAssessmentState,
                [mindset_answers |-> assessmentState.mindsetAnswers,
                 domain |-> assessmentState.selectedDomain,
                 domain_answers |-> assessmentState.domainAnswers])})
    /\ last' = Ran("handleDomainAnswer", answer, 2, 1, "done")

\* lines 741-760 up to the await; assessmentState here is the state of the
\* render in which the answer was given
submitCompleteAssessment(answer, domainAnswers) ==
    /\ CanIssue
    /\ evalIssued < MaxEval
    /\ evalIssued' = evalIssued + 1
    /\ loading' = TRUE
    /\ messagesLen' = Appended(2)
    /\ inflight' = inflight (+)
            SetToBag({Request("evaluate", InitialAssessmentState,
                [mindset_answers |-> assessmentState.mindsetAnswers,
                 domain |-> assessmentState.selectedDomain,
                 domain_answers |-> domainAnswers])})
    /\ last' = Ran("handleDomainAnswer", answer, 2, 1, "done")

\* variant of handleDomainAnswer that records the answer under the position
\* of the question in the list, not under its id
handleDomainAnswer_ByPosition(answer) ==
    LET questions == assessmentState.questions
        cur == assessmentState.currentQuestion
        questionId == questions[cur + 1]
        newAnswers == Record(assessmentState.domainAnswers, cur + 1,
                             toUpperCase(answer))
        nextQuestion == cur + 1
    IN  IF NoCurrentQuestion(assessmentState)
        THEN /\ UNCHANGED chatVars
             /\ last' = Ran("handleDomainAnswer", answer, 0, 0, "threw")
        ELSE /\ unanswered' = unanswered \ {questionId}
             /\ IF nextQuestion < Len(questions)
                THEN /\ CanSetTimer
                     /\ messagesLen' = Appended(1)
                     /\ assessmentState' =
                            [assessmentState EXCEPT
                                !.currentQuestion = nextQuestion,
                                !.domainAnswers = newAnswers]
                     /\ timers' = timers (+)
                            SetToBag({Timer("askQuestion", questions, nextQuestion)})
                     /\ last' = Ran("handleDomainAnswer", answer, 1, 0, "done")
                     /\ UNCHANGED <<loading, inflight, evalIssued>>
                ELSE /\ assessmentState' =
                            [assessmentState EXCEPT !.domainAnswers = newAnswers]
                     /\ submitCompleteAssessment(answer, newAnswers)
                     /\ UNCHANGED timers

\* lines 703-739
handleDomainAnswer(answer) ==
    LET questions == assessmentState.questions
        cur == assessmentState.currentQuestion
        questionId == questions[cur + 1]
        newAnswers == Record(assessmentState.domainAnswers, questionId,
                             toUpperCase(answer))
        nextQuestion == cur + 1
    IN  IF NoCurrentQuestion(assessmentState)
        THEN /\ UNCHANGED chatVars
             /\ last' = Ran("handleDomainAnswer", answer, 0, 0, "threw")
        ELSE /\ unanswered' = unanswered \ {questionId}
             /\ IF nextQuestion < Len(questions)
                THEN /\ CanSetTimer
                     /\ messagesLen' = Appended(1)
                     /\ assessmentState' =
                            [assessmentState EXCEPT
                                !.currentQuestion = nextQuestion,
                                !.domainAnswers = newAnswers]
                     /\ timers' = timers (+)
                            SetToBag({Timer("askQuestion", questions, nextQuestion)})
                     /\ last' = Ran("handleDomainAnswer", answer, 1, 0, "done")
                     /\ UNCHANGED <<loading, inflight, evalIssued>>
                ELSE /\ assessmentState' =
                            [assessmentState EXCEPT !.domainAnswers = newAnswers]
                     /\ submitCompleteAssessment(answer, newAnswers)
                     /\ UNCHANGED timers

\* variant of submitCompleteAssessmentResume whose reset leaves the selected
\* domain and the answers in place
submitCompleteAssessmentResume_KeepsDomain(ok) ==
    /\ variant = "chat"
    /\ \E r \in BagToSet(inflight) :
        /\ r.kind = "evaluate"
        /\ inflight' = inflight (-) SetToBag({r})
    /\ messagesLen' = Appended(1)
    /\ loading' = FALSE
    /\ assessmentState' =
            [assessmentState EXCEPT !.active = FALSE, !.phase = Null,
                                    !.currentQuestion = 0, !.questions = <<>>]
    /\ last' = Ran("submitCompleteAssessmentResume", <<>>, 1, 0,
                   IF ok THEN "done" ELSE "caught")
    /\ UNCHANGED <<variant, timers, unanswered, evalIssued, quizVars>>

\* lines 762-793: the response of /api/assessment/evaluate; a rejected fetch
\* and a body without strengths both end in the catch block
submitCompleteAssessmentResume(ok) ==
    /\ variant = "chat"
    /\ \E r \in BagToSet(inflight) :
        /\ r.kind = "evaluate"
        /\ inflight' = inflight (-) SetToBag({r})
    /\ messagesLen' = Appended(1)
    /\ loading' = FALSE
    /\ assessmentState' = InitialAssessmentState
    /\ last' = Ran("submitCompleteAssessmentResume", <<>>, 1, 0,
                   IF ok THEN "done" ELSE "caught")
    /\ UNCHANGED <<variant, timers, unanswered, evalIssued, quizVars>>

\* lines 810-825 up to the await
askBackend(input) ==
    /\ CanIssue
    /\ messagesLen' = Appended(1)
    /\ loading' = TRUE
    /\ inflight' = inflight (+)
            SetToBag({Request("ask", InitialAssessmentState, NoBody)})
    /\ last' = Ran("sendMessage", input, 1, 1, "done")
    /\ UNCHANGED <<assessmentState, timers, unanswered, evalIssued>>

\* variant of sendMessage whose guard tests input for input.trim()
sendMessage_NoTrim(input) ==
    /\ variant = "chat"
    /\ IF input = <<>> \/ loading
       THEN /\ UNCHANGED chatVars
            /\ last' = Ran("sendMessage", input, 0, 0, "returned")
       ELSE IF assessmentState.active
       THEN CASE assessmentState.phase = "mindset" ->
                    handleMindsetAnswer(input)
              [] assessmentState.phase = "domain-selection" ->
                    handleDomainSelection(input)
              [] assessmentState.phase = "domain-test" ->
                    handleDomainAnswer(input)
              [] OTHER ->
                    /\ UNCHANGED chatVars
                    /\ last' = Ran("sendMessage", input, 0, 0, "done")
       ELSE askBackend(input)
    /\ UNCHANGED <<variant, quizVars>>

\* variant of sendMessage that sends the input of the domain-test phase to
\* /api/ask
sendMessage_AsksInDomainTest(input) ==
    /\ variant = "chat"
    /\ IF IsBlank(input) \/ loading
       THEN /\ UNCHANGED chatVars
            /\ last' = Ran("sendMessage", input, 0, 0, "returned")
       ELSE IF assessmentState.active
       THEN CASE assessmentState.phase = "mindset" ->
                    handleMindsetAnswer(input)
              [] assessmentState.phase = "domain-selection" ->
                    handleDomainSelection(input)
              [] assessmentState.phase = "domain-test" ->
                    askBackend(input)
              [] OTHER ->
                    /\ UNCHANGED chatVars
                    /\ last' = Ran("sendMessage", input, 0, 0, "done")
       ELSE askBackend(input)
    /\ UNCHANGED <<variant, quizVars>>

\* lines 795-825
sendMessage(input) ==
    /\ variant = "chat"
    /\ IF IsBlank(input) \/ loading
       THEN /\ UNCHANGED chatVars
            /\ last' = Ran("sendMessage", input, 0, 0, "returned")
       ELSE IF assessmentState.active
       THEN CASE assessmentState.phase = "mindset" ->
                    handleMindsetAnswer(input)
              [] assessmentState.phase = "domain-selection" ->
                    handleDomainSelection(input)
              [] assessmentState.phase = "domain-test" ->
                    handleDomainAnswer(input)
              [] OTHER ->
                    /\ UNCHANGED chatVars
                    /\ last' = Ran("sendMessage", input, 0, 0, "done")
       ELSE askBackend(input)
    /\ UNCHANGED <<variant, quizVars>>

\* lines 827-849: the response of /api/ask
sendMessageResume(ok) ==
    /\ variant = "chat"
    /\ \E r \in BagToSet(inflight) :
        /\ r.kind = "ask"
        /\ inflight' = inflight (-) SetToBag({r})
    /\ messagesLen' = Appended(1)
    /\ loading' = FALSE
    /\ last' = Ran("sendMessageResume", <<>>, 1, 0,
                   IF ok THEN "done" ELSE "caught")
    /\ UNCHANGED <<variant, assessmentState, timers, unanswered, evalIssued, quizVars>>

\* variant of clearChat whose reset leaves the mindset answers in place
clearChat_KeepsAnswers ==
    /\ variant = "chat"
    /\ messagesLen' = 1
    /\ assessmentState' =
            [InitialAssessmentState EXCEPT
                !.mindsetAnswers = assessmentState.mindsetAnswers]
    /\ unanswered' = {}
    /\ evalIssued' = 0
    /\ last' = Ran("clearChat", <<>>, 0, 0, "done")
    /\ UNCHANGED <<variant, loading, inflight, timers, quizVars>>

\* lines 858-876
clearChat ==
    /\ variant = "chat"
    /\ messagesLen' = 1
    /\ assessmentState' = InitialAssessmentState
    /\ unanswered' = {}
    /\ evalIssued' = 0
    /\ last' = Ran("clearChat", <<>>, 0, 0, "done")
    /\ UNCHANGED <<variant, loading, inflight, timers, quizVars>>

----------------------------------------------------------------------------
(* ChatbotWidget (older), App.jsx 80-218 *)

\* lines 128-147 up to the await
legacySendMessage(input) ==
    /\ variant = "legacy"
    /\ IF IsBlank(input) \/ loading
       THEN /\ UNCHANGED <<loading, messagesLen, inflight>>
            /\ last' = Ran("legacySendMessage", input, 0, 0, "returned")
       ELSE /\ CanIssue
            /\ messagesLen' = Appended(1)
            /\ loading' = TRUE
            /\ inflight' = inflight (+)
                    SetToBag({Request("ask", InitialAssessmentState, NoBody)})
            /\ last' = Ran("legacySendMessage", input, 1, 1, "done")
    /\ UNCHANGED <<variant, assessmentState, timers, unanswered, evalIssued,
                   quizVars>>

\* lines 149-177: the response of /api/ask; the answer is appended by a
\* timer 1000 ms later, the error message at once
legacySendMessageResume(ok) ==
    /\ variant = "legacy"
    /\ \E r \in BagToSet(inflight) :
        /\ r.kind = "ask"
        /\ inflight' = inflight (-) SetToBag({r})
    /\ IF ok
       THEN /\ CanSetTimer
            /\ timers' = timers (+) SetToBag({Timer("botMessage", <<>>, 0)})
            /\ UNCHANGED messagesLen
       ELSE /\ messagesLen' = Appended(1)
            /\ UNCHANGED timers
    /\ loading' = FALSE
    /\ last' = Ran("legacySendMessageResume", <<>>, IF ok THEN 0 ELSE 1, 0,
                   IF ok THEN "done" ELSE "caught")
    /\ UNCHANGED <<variant, assessmentState, unanswered, evalIssued, quizVars>>

\* lines 155-163: the timer callback that appends the answer
legacyBotMessage ==
    /\ variant = "legacy"
    /\ \E t \in BagToSet(timers) :
        /\ t.kind = "botMessage"
        /\ timers' = timers (-) SetToBag({t})
    /\ messagesLen' = Appended(1)
    /\ last' = Ran("legacyBotMessage", <<>>, 1, 0, "done")
    /\ UNCHANGED <<variant, loading, assessmentState, inflight, unanswered,
                   evalIssued, quizVars>>

\* lines 186-194
legacyClearChat ==
    /\ variant = "legacy"
    /\ messagesLen' = 1
    /\ last' = Ran("legacyClearChat", <<>>, 0, 0, "done")
    /\ UNCHANGED <<variant, loading, assessmentState, inflight, timers,
                   unanswered, evalIssued, quizVars>>

----------------------------------------------------------------------------
(* PsychometricQuiz (modal), PsychometricQuiz.jsx 5-139 and 268-430 *)

MaxTotal == 2         \* largest total_questions the backend declares
MaxOption == 1        \* largest option index of a question

SessionIds == {"s1", "s2"}
NoAnswer == -1        \* selectedAnswer === null
NoQuestion == 0       \* currentQuestion / first_question / next_question missing

QuizRequest(kind, answer, num, sid) ==
    [kind |-> kind, answer |-> answer, question_num |-> num,
     session_id |-> sid, mounted |-> TRUE]

\* the quiz step is rendered, line 344
QuizRendered == step = "quiz" /\ currentQuestion # NoQuestion /\ quizData # 0

QuizCanIssue == BagCardinality(quizInflight) < MaxInFlight

\* lines 20-33 up to the await; the button is rendered in the setup step and
\* disabled while loading (lines 272, 328-330)
startQuiz ==
    /\ variant = "modal"
    /\ step = "setup" /\ ~quizLoading
    /\ QuizCanIssue
    /\ quizLoading' = TRUE
    /\ quizInflight' = quizInflight (+)
            SetToBag({QuizRequest("start", NoAnswer, 0, Null)})
    /\ last' = Ran("startQuiz", <<>>, 0, 1, "done")
    /\ UNCHANGED <<variant, chatVars, step, quizData, currentQuestion,
                   selectedAnswer, questionNum, results, sessionId, resultsIssued>>

\* variant of startQuizResume that takes a body without the success flag
\* for a successful start
startQuizResume_IgnoresFlag(outcome, sid, total, first) ==
    /\ variant = "modal"
    /\ \E r \in BagToSet(quizInflight) :
        /\ r.kind = "start"
        /\ quizInflight' = quizInflight (-) SetToBag({r})
        /\ IF ~r.mounted
           THEN UNCHANGED <<step, quizData, currentQuestion, questionNum,
                            sessionId, quizLoading, resultsIssued>>
           ELSE /\ IF outcome \in {"success", "refused"}
                   THEN /\ quizData' = total
                        /\ currentQuestion' = first
                        /\ questionNum' = 1
                        /\ sessionId' = sid
                        /\ step' = "quiz"
                        /\ resultsIssued' = 0
                   ELSE UNCHANGED <<step, quizData, currentQuestion,
                                    questionNum, sessionId, resultsIssued>>
                /\ quizLoading' = FALSE
        /\ last' = Ran("startQuizResume", <<>>,
                       IF outcome = "success" THEN 0 ELSE 1, 0,
                       CASE outcome = "success" -> "done"
                         [] outcome = "refused" -> "refused"
                         [] OTHER -> "caught")
    /\ UNCHANGED <<variant, chatVars, selectedAnswer, results>>

\* lines 35-63: the response of /api/quiz/start.  outcome "error" is a
\* rejected fetch or a non-2xx status, "refused" a body without the success
\* flag, "success" a body with it.  A component unmounted by onClose ignores
\* its state setters.
startQuizResume(outcome, sid, total, first) ==
    /\ variant = "modal"
    /\ \E r \in BagToSet(quizInflight) :
        /\ r.kind = "start"
        /\ quizInflight' = quizInflight (-) SetToBag({r})
        /\ IF ~r.mounted
           THEN UNCHANGED <<step, quizData, currentQuestion, questionNum,
                            sessionId, quizLoading, resultsIssued>>
           ELSE /\ IF outcome = "success"
                   THEN /\ quizData' = total
                        /\ currentQuestion' = first
                        /\ questionNum' = 1
                        /\ sessionId' = sid
                        /\ step' = "quiz"
                        /\ resultsIssued' = 0
                   ELSE UNCHANGED <<step, quizData, currentQuestion,
                                    questionNum, sessionId, resultsIssued>>
                /\ quizLoading' = FALSE
        /\ last' = Ran("startQuizResume", <<>>,
                       IF outcome = "success" THEN 0 ELSE 1, 0,
                       CASE outcome = "success" -> "done"
                         [] outcome = "refused" -> "refused"
                         [] OTHER -> "caught")
    /\ UNCHANGED <<variant, chatVars, selectedAnswer, results>>

\* line 363
setSelectedAnswer(index) ==
    /\ variant = "modal"
    /\ QuizRendered
    /\ selectedAnswer' = index
    /\ last' = Ran("setSelectedAnswer", <<>>, 0, 0, "done")
    /\ UNCHANGED <<variant, chatVars, step, quizData, currentQuestion,
                   questionNum, results, quizLoading, sessionId, quizInflight,
                   resultsIssued>>

\* variant of submitAnswer whose request body has no session_id
submitAnswer_NoSession ==
    /\ variant = "modal"
    /\ QuizRendered /\ ~quizLoading
    /\ IF selectedAnswer = NoAnswer
       THEN /\ UNCHANGED <<quizLoading, quizInflight>>
            /\ last' = Ran("submitAnswer", <<>>, 0, 0, "returned")
       ELSE /\ QuizCanIssue
            /\ quizLoading' = TRUE
            /\ quizInflight' = quizInflight (+)
                    SetToBag({QuizRequest("answer", selectedAnswer,
                                          questionNum, Null)})
            /\ last' = Ran("submitAnswer", <<>>, 0, 1, "done")
    /\ UNCHANGED <<variant, chatVars, step, quizData, currentQuestion,
                   selectedAnswer, questionNum, results, sessionId, resultsIssued>>

\* lines 65-85 up to the await; the button is rendered in the quiz step and
\* disabled while loading (lines 344, 377-378)
submitAnswer ==
    /\ variant = "modal"
    /\ QuizRendered /\ ~quizLoading
    /\ IF selectedAnswer = NoAnswer
       THEN /\ UNCHANGED <<quizLoading, quizInflight>>
            /\ last' = Ran("submitAnswer", <<>>, 0, 0, "returned")
       ELSE /\ QuizCanIssue
            /\ quizLoading' = TRUE
            /\ quizInflight' = quizInflight (+)
                    SetToBag({QuizRequest("answer", selectedAnswer,
                                          questionNum, sessionId)})
            /\ last' = Ran("submitAnswer", <<>>, 0, 1, "done")
    /\ UNCHANGED <<variant, chatVars, step, quizData, currentQuestion,
                   selectedAnswer, questionNum, results, sessionId, resultsIssued>>

\* variant of submitAnswerResume that leaves the selection in place when it
\* moves to the next question
submitAnswerResume_KeepsSelection(outcome, num) ==
    /\ variant = "modal"
    /\ \E r \in BagToSet(quizInflight) :
        /\ r.kind = "answer"
        /\ IF outcome = "completed"
           THEN /\ resultsIssued < MaxResults
                /\ quizInflight' = (quizInflight (-) SetToBag({r})) (+)
                        SetToBag({[r EXCEPT !.kind = "results"]})
                /\ resultsIssued' = IF r.mounted THEN resultsIssued + 1
                                    ELSE resultsIssued
                /\ UNCHANGED <<currentQuestion, questionNum, selectedAnswer,
                               quizLoading>>
                /\ last' = Ran("submitAnswerResume", <<>>, 0, 1, "done")
           ELSE /\ quizInflight' = quizInflight (-) SetToBag({r})
                /\ UNCHANGED resultsIssued
                /\ IF ~r.mounted
                   THEN UNCHANGED <<currentQuestion, questionNum,
                                    selectedAnswer, quizLoading>>
                   ELSE /\ IF outcome = "next"
                           THEN /\ currentQuestion' = num
                                /\ questionNum' = num
                                /\ UNCHANGED selectedAnswer
                           ELSE UNCHANGED <<currentQuestion, questionNum,
                                            selectedAnswer>>
                        /\ quizLoading' = FALSE
                /\ last' = Ran("submitAnswerResume", <<>>,
                               IF outcome = "next" THEN 0 ELSE 1, 0,
                               IF outcome = "next" THEN "done" ELSE "caught")
    /\ UNCHANGED <<variant, chatVars, step, quizData, results, sessionId>>

\* variant of submitAnswerResume that counts questionNum up by one and does
\* not read the question_num of the next question
submitAnswerResume_CountsUp(outcome, num) ==
    /\ variant = "modal"
    /\ \E r \in BagToSet(quizInflight) :
        /\ r.kind = "answer"
        /\ IF outcome = "completed"
           THEN /\ resultsIssued < MaxResults
                /\ quizInflight' = (quizInflight (-) SetToBag({r})) (+)
                        SetToBag({[r EXCEPT !.kind = "results"]})
                /\ resultsIssued' = IF r.mounted THEN resultsIssued + 1
                                    ELSE resultsIssued
                /\ UNCHANGED <<currentQuestion, questionNum, selectedAnswer,
                               quizLoading>>
                /\ last' = Ran("submitAnswerResume", <<>>, 0, 1, "done")
           ELSE /\ quizInflight' = quizInflight (-) SetToBag({r})
                /\ UNCHANGED resultsIssued
                /\ IF ~r.mounted
                   THEN UNCHANGED <<currentQuestion, questionNum,
                                    selectedAnswer, quizLoading>>
                   ELSE /\ IF outcome = "next"
                           THEN /\ currentQuestion' = num
                                /\ questionNum' = questionNum + 1
                                /\ selectedAnswer' = NoAnswer
                           ELSE UNCHANGED <<currentQuestion, questionNum,
                                            selectedAnswer>>
                        /\ quizLoading' = FALSE
                /\ last' = Ran("submitAnswerResume", <<>>,
                               IF outcome = "next" THEN 0 ELSE 1, 0,
                               IF outcome = "next" THEN "done" ELSE "caught")
    /\ UNCHANGED <<variant, chatVars, step, quizData, results, sessionId>>

\* lines 87-106 and 125-138: the response of /api/quiz/answer.  outcome
\* "error" is a rejected fetch or a non-2xx status, "completed" a body with
\* completed === true, "next" one with completed === false and next_question
\* (whose question_num is num), "other" any other body
submitAnswerResume(outcome, num) ==
    /\ variant = "modal"
    /\ \E r \in BagToSet(quizInflight) :
        /\ r.kind = "answer"
        /\ IF outcome = "completed"
           THEN /\ resultsIssued < MaxResults
                /\ quizInflight' = (quizInflight (-) SetToBag({r})) (+)
                        SetToBag({[r EXCEPT !.kind = "results"]})
                /\ resultsIssued' = IF r.mounted THEN resultsIssued + 1
                                    ELSE resultsIssued
                /\ UNCHANGED <<currentQuestion, questionNum, selectedAnswer,
                               quizLoading>>
                /\ last' = Ran("submitAnswerResume", <<>>, 0, 1, "done")
           ELSE /\ quizInflight' = quizInflight (-) SetToBag({r})
                /\ UNCHANGED resultsIssued
                /\ IF ~r.mounted
                   THEN UNCHANGED <<currentQuestion, questionNum,
                                    selectedAnswer, quizLoading>>
                   ELSE /\ IF outcome = "next"
                           THEN /\ currentQuestion' = num
                                /\ questionNum' = num
                                /\ selectedAnswer' = NoAnswer
                           ELSE UNCHANGED <<currentQuestion, questionNum,
                                            selectedAnswer>>
                        /\ quizLoading' = FALSE
                /\ last' = Ran("submitAnswerResume", <<>>,
                               IF outcome = "next" THEN 0 ELSE 1, 0,
                               IF outcome = "next" THEN "done" ELSE "caught")
    /\ UNCHANGED <<variant, chatVars, step, quizData, results, sessionId>>

\* variant of fetchResultsResume that does not test the body for success
\* and score_data
fetchResultsResume_NoPayloadCheck(outcome) ==
    /\ variant = "modal"
    /\ \E r \in BagToSet(quizInflight) :
        /\ r.kind = "results"
        /\ quizInflight' = quizInflight (-) SetToBag({r})
        /\ IF ~r.mounted
           THEN UNCHANGED <<step, results, quizLoading>>
           ELSE /\ IF outcome \in {"scored", "other"}
                   THEN /\ results' = IF outcome = "scored" THEN "scored"
                                      ELSE results
                        /\ step' = "results"
                   ELSE UNCHANGED <<step, results>>
                /\ quizLoading' = FALSE
    /\ last' = Ran("fetchResultsResume", <<>>,
                   IF outcome \in {"scored", "other"} THEN 0 ELSE 1, 0,
                   IF outcome \in {"scored", "other"} THEN "done" ELSE "caught")
    /\ UNCHANGED <<variant, chatVars, quizData, currentQuestion, selectedAnswer,
                   questionNum, sessionId, resultsIssued>>

\* lines 108-124 and 133-138: the response of /api/quiz/results.  outcome
\* "error" is a rejected fetch or a non-2xx status, "scored" a body with
\* success and score_data, "other" any other body
fetchResultsResume(outcome) ==
    /\ variant = "modal"
    /\ \E r \in BagToSet(quizInflight) :
        /\ r.kind = "results"
        /\ quizInflight' = quizInflight (-) SetToBag({r})
        /\ IF ~r.mounted
           THEN UNCHANGED <<step, results, quizLoading>>
           ELSE /\ IF outcome = "scored"
                   THEN /\ results' = "scored"
                        /\ step' = "results"
                   ELSE UNCHANGED <<step, results>>
                /\ quizLoading' = FALSE
    /\ last' = Ran("fetchResultsResume", <<>>,
                   IF outcome = "scored" THEN 0 ELSE 1, 0,
                   IF outcome = "scored" THEN "done" ELSE "caught")
    /\ UNCHANGED <<variant, chatVars, quizData, currentQuestion, selectedAnswer,
                   questionNum, sessionId, resultsIssued>>

\* lines 269, 327, 423 and App.jsx 223-225: the modal is unmounted; the next
\* mount starts from the useState initial values of lines 6-18
onClose ==
    /\ variant = "modal"
    /\ step' = "setup"
    /\ quizData' = 0
    /\ currentQuestion' = NoQuestion
    /\ selectedAnswer' = NoAnswer
    /\ questionNum' = 1
    /\ results' = Null
    /\ quizLoading' = FALSE
    /\ sessionId' = Null
    /\ resultsIssued' = 0
    /\ quizInflight' =
          LET olds == BagToSet(quizInflight)
              unmounted(r) == [r EXCEPT !.mounted = FALSE]
          IN  [q \in {unmounted(r) : r \in olds} |->
                 LET same == {r \in olds : unmounted(r) = q}
                     Sum[S \in SUBSET same] ==
                        IF S = {} THEN 0
                        ELSE LET x == CHOOSE x \in S : TRUE
                             IN  quizInflight[x] + Sum[S \ {x}]
                 IN  Sum[same]]
    /\ last' = Ran("onClose", <<>>, 0, 0, "done")
    /\ UNCHANGED <<variant, chatVars>>

----------------------------------------------------------------------------
(* Specification *)

Init ==
    /\ variant \in {"chat", "legacy", "modal"}
    /\ loading = FALSE
    /\ messagesLen = 1
    /\ assessmentState = InitialAssessmentState
    /\ inflight = EmptyBag
    /\ timers = EmptyBag
    /\ unanswered = {}
    /\ evalIssued = 0
    /\ last = Ran("mount", <<>>, 0, 0, "done")
    /\ step = "setup"
    /\ quizData = 0
    /\ currentQuestion = NoQuestion
    /\ selectedAnswer = NoAnswer
    /\ questionNum = 1
    /\ results = Null
    /\ quizLoading = FALSE
    /\ sessionId = Null
    /\ quizInflight = EmptyBag
    /\ resultsIssued = 0

Next ==
    \/ startAssessment
    \/ \E questions \in MindsetLists \cup {Undefined} :
            startAssessmentResume(TRUE, questions)
    \/ startAssessmentResume(FALSE, <<>>)
    \/ askQuestion
    \/ showDomainSelection
    \/ \E ok \in BOOLEAN : showDomainSelectionResume(ok)
    \/ \E input \in InputsFor(assessmentState) : sendMessage(input)
    \/ \E questions \in DomainLists \cup {Undefined} :
            handleDomainSelectionResume(TRUE, questions)
    \/ handleDomainSelectionResume(FALSE, <<>>)
    \/ \E ok \in BOOLEAN : submitCompleteAssessmentResume(ok)
    \/ \E ok \in BOOLEAN : sendMessageResume(ok)
    \/ clearChat
    \/ \E input \in AskInputs : legacySendMessage(input)
    \/ \E ok \in BOOLEAN : legacySendMessageResume(ok)
    \/ legacyBotMessage
    \/ legacyClearChat
    \/ startQuiz
    \/ \E sid \in SessionIds, total \in 1..MaxTotal, first \in {NoQuestion, 1} :
            startQuizResume("success", sid, total, first)
    \/ \E outcome \in {"error", "refused"} :
            startQuizResume(outcome, Null, 0, NoQuestion)
    \/ \E index \in 0..MaxOption : setSelectedAnswer(index)
    \/ submitAnswer
    \/ \E num \in 1..(MaxTotal + 1) : submitAnswerResume("next", num)
    \/ \E outcome \in {"error", "completed", "other"} :
            submitAnswerResume(outcome, 0)
    \/ \E outcome \in {"error", "scored", "other"} : fetchResultsResume(outcome)
    \/ onClose

Spec == Init /\ [][Next]_vars

----------------------------------------------------------------------------
(* Domain resolution on its own: the widget waits in the domain-selection
   phase, the user has typed one of the texts of ResolveInputs into the
   input field (setInput, line 1078), and the text is sent *)

MaxInputLen == 3      \* longest generated input text

ResolveAlphabet == {"3", "6", " ", "b", "i", "o", "s", "c", "X"}

ResolveInputs ==
    UNION {[1..n -> ResolveAlphabet] : n \in 0..MaxInputLen}
    \cup { <<"m","y"," ","p","h","y","s","i","c","s">>, <<"y">>,
           <<"S","C","I","E">> }

\* the state after the mindset questions were answered and the domain list
\* was shown
DomainSelectionState ==
    [active |-> TRUE, phase |-> "domain-selection",
     currentQuestion |-> MaxQuestions - 1,
     questions |-> QuestionList(0, MaxQuestions), answers |-> <<>>,
     selectedDomain |-> Null,
     mindsetAnswers |-> [i \in 1..MaxQuestions |-> <<"A">>],
     domainAnswers |-> <<>>]

AwaitingDomain ==
    /\ variant = "chat"
    /\ loading = FALSE
    /\ messagesLen = MaxMsgs
    /\ assessmentState = DomainSelectionState
    /\ inflight = EmptyBag
    /\ timers = EmptyBag
    /\ unanswered = {}
    /\ evalIssued = 0

InitResolve ==
    /\ AwaitingDomain
    /\ \E input \in ResolveInputs :
          last = [op |-> "setInput", input |-> input,
                  phase |-> "domain-selection", appended |-> 0, issued |-> 0,
                  outcome |-> "done"]
    /\ step = "setup"
    /\ quizData = 0
    /\ currentQuestion = NoQuestion
    /\ selectedAnswer = NoAnswer
    /\ questionNum = 1
    /\ results = Null
    /\ quizLoading = FALSE
    /\ sessionId = Null
    /\ quizInflight = EmptyBag
    /\ resultsIssued = 0

NextResolve ==
    \/ last.op = "setInput" /\ sendMessage(last.input)
    \/ handleDomainSelectionResume(FALSE, <<>>)

SpecResolve == InitResolve /\ [][NextResolve]_vars

----------------------------------------------------------------------------
(* A run in which the backend answers every request successfully, every timer
   fires, and the user keeps answering and neither clears the chat nor closes
   the modal *)

\* the texts that answer what the phase asks for: not blank, and in the
\* domain selection the name or number of a domain
AnswerInputs(st) ==
    {input \in InputsFor(st) :
        /\ ~IsBlank(input)
        /\ st.phase = "domain-selection" => resolveDomainIndex(input) # 0}

\* the user answers the question of the active assessment
UserAnswers ==
    /\ assessmentState.active
    /\ ~loading
    /\ \E input \in AnswerInputs(assessmentState) : sendMessage(input)

\* the user selects an option of the displayed question
UserSelects == \E index \in 0..MaxOption : setSelectedAnswer(index)

\* the user submits the selected option
UserSubmits == selectedAnswer # NoAnswer /\ submitAnswer

\* the backend serves an answer request: the next question while the
\* answered one is not the last of the declared total, completed: true when
\* it is
AnswerServed ==
    \E r \in BagToSet(quizInflight) :
        /\ r.kind = "answer"
        /\ IF r.question_num < quizData
           THEN submitAnswerResume("next", r.question_num + 1)
           ELSE submitAnswerResume("completed", 0)

InitLive ==
    /\ Init
    /\ variant \in {"chat", "modal"}

NextLive ==
    \/ startAssessment
    \/ startAssessmentResume(TRUE, QuestionList(0, MaxQuestions))
    \/ askQuestion
    \/ showDomainSelection
    \/ showDomainSelectionResume(TRUE)
    \/ \E input \in InputsFor(assessmentState) : sendMessage(input)
    \/ handleDomainSelectionResume(TRUE, QuestionList(10, MaxQuestions))
    \/ submitCompleteAssessmentResume(TRUE)
    \/ sendMessageResume(TRUE)
    \/ startQuiz
    \/ \E sid \in SessionIds, total \in 1..MaxTotal :
            startQuizResume("success", sid, total, 1)
    \/ UserSelects
    \/ submitAnswer
    \/ AnswerServed
    \/ fetchResultsResume("scored")

\* every response arrives, every timer fires, and the user goes on answering
Fairness ==
    /\ WF_vars(startAssessmentResume(TRUE, QuestionList(0, MaxQuestions)))
    /\ WF_vars(askQuestion)
    /\ WF_vars(showDomainSelection)
    /\ WF_vars(showDomainSelectionResume(TRUE))
    /\ WF_vars(handleDomainSelectionResume(TRUE, QuestionList(10, MaxQuestions)))
    /\ WF_vars(submitCompleteAssessmentResume(TRUE))
    /\ WF_vars(sendMessageResume(TRUE))
    /\ WF_vars(UserAnswers)
    /\ WF_vars(\E sid \in SessionIds, total \in 1..MaxTotal :
                    startQuizResume("success", sid, total, 1))
    /\ WF_vars(UserSelects)
    /\ WF_vars(UserSubmits)
    /\ WF_vars(AnswerServed)
    /\ WF_vars(fetchResultsResume("scored"))

SpecLive == InitLive /\ [][NextLive]_vars /\ Fairness

----------------------------------------------------------------------------
(* Phases of the chat-driven assessment *)

InFlight(kind) == {r \in BagToSet(inflight) : r.kind = kind}

\* every question of the current domain test has its answer, which is the
\* state in which handleDomainAnswer has handed over to the evaluate call
AllDomainAnswered(st) ==
    /\ st.questions # Undefined
    /\ st.questions # <<>>
    /\ \A i \in 1..Len(st.questions) : st.questions[i] \in DOMAIN st.domainAnswers

\* the phase of the state machine of section 4.2 that a state record is in
PhaseOf(st) ==
    IF ~st.active THEN "Idle"
    ELSE IF st.phase = "mindset" THEN "Mindset"
    ELSE IF st.phase = "domain-selection" THEN "DomainSelection"
    ELSE IF AllDomainAnswered(st) THEN "Complete"
    ELSE "DomainTest"

PhaseEdges ==
    { <<"Idle", "Mindset">>, <<"Mindset", "DomainSelection">>,
      <<"DomainSelection", "DomainTest">>, <<"DomainTest", "Complete">>,
      <<"Complete", "Idle">> }

----------------------------------------------------------------------------
(* Claims *)

\* C1: in the chat-driven assessment every step leaves the phase as it is,
\* moves it along Idle -> Mindset -> DomainSelection -> DomainTest ->
\* Complete -> Idle, or is a chat clear that moves it to Idle.
C1_PhaseOrder ==
    [][variant = "chat" =>
        \/ PhaseOf(assessmentState') = PhaseOf(assessmentState)
        \/ <<PhaseOf(assessmentState), PhaseOf(assessmentState')>> \in PhaseEdges
        \/ /\ last'.op = "clearChat"
           /\ PhaseOf(assessmentState') = "Idle"]_vars


\* C2: no two requests of one widget are in flight at the same time.
C2_OneRequestInFlight ==
    /\ BagCardinality(inflight) <= 1
    /\ \A r \in BagToSet(quizInflight) :
          r.mounted => /\ quizInflight[r] = 1
                       /\ \A q \in BagToSet(quizInflight) : q.mounted => q = r

\* C3: the accepted last answer of a run triggers its results/evaluate
\* request exactly once: an assessment run has issued one evaluate request
\* once all its domain answers are in and never issues a second one, and
\* the mounted quiz never has two results requests outstanding.
C3_ExactlyOneResultsRequest ==
    /\ evalIssued <= 1
    /\ (variant = "chat" /\ PhaseOf(assessmentState) = "Complete") => evalIssued = 1
    /\ \A r \in BagToSet(quizInflight) :
          (r.kind = "results" /\ r.mounted) =>
              /\ quizInflight[r] = 1
              /\ \A q \in BagToSet(quizInflight) :
                    (q.kind = "results" /\ q.mounted) => q = r

\* C4: a step that ends in the failure path of a request changes nothing of
\* the assessment state or the quiz state apart from the loading flag.
C4_FailureKeepsState ==
    [][last'.outcome \in {"caught", "refused"} =>
        /\ assessmentState' = assessmentState
        /\ UNCHANGED <<step, quizData, currentQuestion, selectedAnswer,
                       questionNum, results, sessionId>>]_vars

\* C5: right after clearChat the assessment state is the initial Idle record,
\* whatever phase the clear interrupted.
C5_ClearResets ==
    last.op = "clearChat" => assessmentState = InitialAssessmentState

\* C5 witness: the chat was cleared in the domain test while the evaluate
\* request was in flight.
C5_Witness ==
    /\ last.op = "clearChat"
    /\ last.phase = "domain-test"
    /\ InFlight("evaluate") # {}
    /\ assessmentState = InitialAssessmentState

\* C6: while a phase is active the question index is below the number of
\* questions, for every question list the backend returned.
C6_IndexInRange ==
    (assessmentState.active /\ assessmentState.questions # Undefined) =>
        assessmentState.currentQuestion < Len(assessmentState.questions)

\* C7: while the phase is Idle or Mindset, domainAnswers is empty and
\* selectedDomain is unset.
C7_NoDomainBeforeSelection ==
    PhaseOf(assessmentState) \in {"Idle", "Mindset"} =>
        /\ assessmentState.domainAnswers = <<>>
        /\ assessmentState.selectedDomain = Null

\* C7 witness: the state is Idle again after the evaluate call of a domain
\* test that had a selected domain and domain answers.
C7_Witness ==
    /\ last.op = "submitCompleteAssessmentResume"
    /\ last.phase = "domain-test"
    /\ PhaseOf(assessmentState) = "Idle"

\* C8: at most one displayed question awaits its answer.
C8_OneUnansweredQuestion ==
    Cardinality(unanswered) <= 1

ChatInputOps ==
    {"sendMessage", "handleMindsetAnswer", "handleDomainSelection",
     "handleDomainAnswer"}

\* C9: without a selection nothing is accepted: submitAnswer with a null
\* selectedAnswer and sendMessage with an empty or white-space input change
\* no state and issue no request, so no answer request carries a null answer
\* and no recorded answer is blank.
C9_NoAnswerWithoutSelection ==
    /\ [](\A r \in BagToSet(quizInflight) :
            r.kind = "answer" => r.answer # NoAnswer)
    /\ [](\A id \in DOMAIN assessmentState.mindsetAnswers :
            ~IsBlank(assessmentState.mindsetAnswers[id]))
    /\ [](\A id \in DOMAIN assessmentState.domainAnswers :
            ~IsBlank(assessmentState.domainAnswers[id]))
    /\ [][/\ (last'.op \in ChatInputOps /\ IsBlank(last'.input))
                => UNCHANGED chatVars
          /\ (last'.op = "submitAnswer" /\ selectedAnswer = NoAnswer)
                => UNCHANGED quizVars]_vars

\* C9 witness: white space was sent while a mindset question awaited its
\* answer, and sendMessage returned.
C9_Witness ==
    /\ last.op = "sendMessage"
    /\ last.input = <<" ">>
    /\ last.outcome = "returned"
    /\ assessmentState.phase = "mindset"
    /\ ~loading
    /\ unanswered # {}


\* handleDomainSelection has just issued one domain-questions request, and
\* it asks for this domain
Requested(domain) ==
    /\ last.issued = 1
    /\ last.outcome = "done"
    /\ loading
    /\ \A r \in InFlight("domain-questions") :
          r.captured = assessmentState => r.body.domain = domain
    /\ \E r \in InFlight("domain-questions") :
          r.captured = assessmentState /\ r.body.domain = domain

\* handleDomainSelection has re-prompted and left the state as it was
Reprompted ==
    /\ last.outcome = "returned"
    /\ last.issued = 0
    /\ last.appended = 1
    /\ ~loading
    /\ PhaseOf(assessmentState) = "DomainSelection"

\* the input is one of the numbers 1..5, white space around it aside
IsNumber1to5(input) ==
    /\ Len(trim(input)) = 1
    /\ trim(input)[1] \in {"1", "2", "3", "4", "5"}

NumberOf(input) == IndexIn(trim(input)[1], DigitChars) - 1

\* the input is a case-insensitive substring of a domain name
SubstringOfDomain(input) ==
    \E i \in 1..Len(domains) :
        includes(toLowerCase(domainChars[i]), toLowerCase(input))

\* the input contains a domain name, case aside
ContainsDomain(input) ==
    \E i \in 1..Len(domains) :
        includes(toLowerCase(input), toLowerCase(domainChars[i]))

\* C10 as stated: a number 1..5 or a case-insensitive substring of a domain
\* name resolves to exactly one of the five domains (number n to the n-th),
\* and every other input resolves to none and leaves the DomainSelection
\* state as it is.
C10_AsStated ==
    last.op = "handleDomainSelection" =>
        IF IsNumber1to5(last.input)
        THEN Requested(domains[NumberOf(last.input)])
        ELSE IF SubstringOfDomain(last.input)
        THEN \E i \in 1..Len(domains) : Requested(domains[i])
        ELSE Reprompted

\* C10 amended: an input whose leading integer, read as parseInt reads it,
\* is n in 1..5 resolves to the n-th domain; any other input that is a
\* case-insensitive substring of a domain name, or contains one, resolves to
\* one of the domains it matches; every other input resolves to none and
\* leaves the DomainSelection state as it is.
C10_Resolution ==
    last.op = "handleDomainSelection" =>
        LET num == parseInt(last.input)
        IN  IF ~num.nan /\ num.val \in 1..5
            THEN Requested(domains[num.val])
            ELSE IF SubstringOfDomain(last.input) \/ ContainsDomain(last.input)
            THEN \E i \in 1..Len(domains) :
                    /\ DomainMatches(i, last.input)
                    /\ Requested(domains[i])
            ELSE Reprompted

\* C10 witness: the input bio was resolved and the questions of Biology
\* were requested.
C10_Witness ==
    /\ last.op = "handleDomainSelection"
    /\ last.input = <<"b","i","o">>
    /\ Requested("Biology")


\* C11: every failed request and every response that lacks an expected field
\* ends in the failure path of its handler with exactly one error message:
\* no handler and no timer callback ends with an exception, and no response
\* without its questions field is stored as the question list.
C11_ErrorsCaught ==
    /\ last.outcome # "threw"
    /\ assessmentState.questions # Undefined
    /\ last.outcome \in {"caught", "refused"} => last.appended = 1


\* this step delivers the response of a request of this kind to the mounted
\* quiz
MountedResponse(kind) ==
    \E r \in BagToSet(quizInflight) :
        /\ r.kind = kind
        /\ r.mounted
        /\ quizInflight' = quizInflight (-) SetToBag({r})

\* C12: a start response with the success flag puts the mounted quiz in the
\* quiz step with questionNum 1, currentQuestion = first_question and
\* sessionId = the returned session_id; a failed request, a non-2xx status
\* and a body without the flag leave the step at setup and the session id
\* unset, show one alert and clear loading.
C12_StartQuiz ==
    [][/\ \A sid \in SessionIds, total \in 1..MaxTotal, first \in {NoQuestion, 1} :
            (startQuizResume("success", sid, total, first)
                    /\ MountedResponse("start")) =>
                /\ sessionId' = sid
                /\ currentQuestion' = first
       /\ (last'.op = "startQuizResume" /\ last'.outcome = "done"
                    /\ MountedResponse("start")) =>
                /\ step' = "quiz"
                /\ questionNum' = 1
                /\ sessionId' \in SessionIds
                /\ last'.appended = 0
                /\ quizLoading' = FALSE
       /\ (last'.op = "startQuizResume"
                    /\ last'.outcome \in {"caught", "refused"}
                    /\ MountedResponse("start")) =>
                /\ step = "setup" /\ step' = "setup"
                /\ sessionId' = Null
                /\ last'.appended = 1
                /\ quizLoading' = FALSE]_vars

\* C12 witness: the quiz shows the first question of the session s2 after
\* a successful start.
C12_Witness ==
    /\ last.op = "startQuizResume"
    /\ last.outcome = "done"
    /\ step = "quiz"
    /\ sessionId = "s2"
    /\ currentQuestion = 1
    /\ questionNum = 1
    /\ ~quizLoading


\* this step puts a results request of the mounted quiz in flight
ResultsRequested ==
    \E r \in BagToSet(quizInflight') :
        /\ r.kind = "results"
        /\ r.mounted
        /\ CopiesIn(r, quizInflight') > CopiesIn(r, quizInflight)

\* C13: the results request is sent only by the continuation of an answer
\* response with completed: true; the step becomes results only by a results
\* response with the success flag and score_data, so step = results implies
\* a stored result with score_data; a results response without them leaves
\* the step at quiz and shows one alert.
C13_ResultsOnlyWithPayload ==
    /\ [](step = "results" => results = "scored")
    /\ [][/\ ResultsRequested =>
                /\ last'.op = "submitAnswerResume"
                /\ last'.outcome = "done"
                /\ last'.issued = 1
          /\ (step' = "results" /\ step # "results") =>
                /\ last'.op = "fetchResultsResume"
                /\ last'.outcome = "done"
                /\ results' = "scored"
          /\ (last'.op = "fetchResultsResume" /\ last'.outcome = "caught"
                    /\ MountedResponse("results")) =>
                /\ step = "quiz" /\ step' = "quiz"
                /\ results' = Null
                /\ last'.appended = 1]_vars

\* C13 witness: the results step is shown with the scored result of a
\* results response.
C13_Witness ==
    /\ last.op = "fetchResultsResume"
    /\ last.outcome = "done"
    /\ step = "results"
    /\ results = "scored"


\* the steps that send a request: the handlers of the user's actions, the
\* timer callback that the last mindset answer schedules, and the
\* continuation of the final quiz answer that fetches the results
RequestOps ==
    {"startAssessment", "showDomainSelection", "handleDomainSelection",
     "handleDomainAnswer", "sendMessage", "legacySendMessage", "startQuiz",
     "submitAnswer", "submitAnswerResume"}

\* the steps that take the response of a request
ResponseOps ==
    {"startAssessmentResume", "showDomainSelectionResume",
     "handleDomainSelectionResume", "submitCompleteAssessmentResume",
     "sendMessageResume", "legacySendMessageResume", "startQuizResume",
     "submitAnswerResume", "fetchResultsResume"}

Requests == BagCardinality(inflight) + BagCardinality(quizInflight)

C15_SessionId ==
    /\ [](\A r \in BagToSet(quizInflight) :
            r.kind \in {"answer", "results"} =>
                /\ r.session_id \in SessionIds
                /\ r.mounted => r.session_id = sessionId)
    /\ [][sessionId' # sessionId =>
            \/ /\ last'.op = "startQuizResume"
               /\ last'.outcome = "done"
               /\ sessionId = Null
            \/ /\ last'.op = "onClose"
               /\ sessionId' = Null]_vars

\* C15 witness: the results request of the run with session s1 is in flight.
C15_Witness ==
    /\ sessionId = "s1"
    /\ \E r \in BagToSet(quizInflight) :
          r.kind = "results" /\ r.mounted /\ r.session_id = "s1"


\* C16: while a request of a widget is in flight its loading flag is true:
\* in both chat widgets whenever the bag of requests is not empty, and in
\* the mounted quiz whenever one of its requests is.
C16_LoadingWhileInFlight ==
    /\ inflight # EmptyBag => loading
    /\ (\E r \in BagToSet(quizInflight) : r.mounted) => quizLoading


\* C17: an accepted answer to the mindset question at index i is recorded,
\* in upper case, under the id of question i, and every earlier answer is
\* retained; when i is not the last index the index becomes i + 1 and the
\* phase and the question list stay; when i is the last index the phase
\* becomes DomainSelection.
C17_MindsetAnswer ==
    [][(last'.op = "handleMindsetAnswer" /\ last'.outcome = "done") =>
        LET i == assessmentState.currentQuestion
            questions == assessmentState.questions
            id == questions[i + 1]
            new == assessmentState'
        IN  /\ PhaseOf(assessmentState) = "Mindset"
            /\ i < Len(questions)
            /\ DOMAIN new.mindsetAnswers =
                    DOMAIN assessmentState.mindsetAnswers \cup {id}
            /\ new.mindsetAnswers[id] = toUpperCase(last'.input)
            /\ \A other \in DOMAIN assessmentState.mindsetAnswers \ {id} :
                    new.mindsetAnswers[other] =
                        assessmentState.mindsetAnswers[other]
            /\ new.questions = questions
            /\ new.domainAnswers = assessmentState.domainAnswers
            /\ new.selectedDomain = assessmentState.selectedDomain
            /\ IF i + 1 < Len(questions)
               THEN /\ new.currentQuestion = i + 1
                    /\ PhaseOf(new) = "Mindset"
               ELSE /\ PhaseOf(new) = "DomainSelection"
                    /\ \A j \in 1..Len(questions) :
                          questions[j] \in DOMAIN new.mindsetAnswers]_vars

\* C17 witness: the last mindset question was answered and the phase is
\* DomainSelection with the answers of both questions.
C17_Witness ==
    /\ last.op = "handleMindsetAnswer"
    /\ last.outcome = "done"
    /\ PhaseOf(assessmentState) = "DomainSelection"
    /\ DOMAIN assessmentState.mindsetAnswers = {1, 2}
    /\ assessmentState.mindsetAnswers[2] = <<"A">>


\* C18: an accepted answer to the domain-test question at index i is
\* recorded, in upper case, under the id of question i, and every other
\* answer is retained; when i is not the last index the index becomes i + 1,
\* the phase stays and no request is sent; when i is the last index one
\* evaluate request with all the domain answers is sent; and the step that
\* takes the response of an evaluate request leaves the assessment state at
\* its initial values.
C18_DomainAnswer ==
    [][/\ (last'.op = "handleDomainAnswer" /\ last'.outcome = "done") =>
            LET i == assessmentState.currentQuestion
                questions == assessmentState.questions
                id == questions[i + 1]
                new == assessmentState'
            IN  /\ assessmentState.phase = "domain-test"
                /\ i < Len(questions)
                /\ DOMAIN new.domainAnswers =
                        DOMAIN assessmentState.domainAnswers \cup {id}
                /\ new.domainAnswers[id] = toUpperCase(last'.input)
                /\ \A other \in DOMAIN assessmentState.domainAnswers \ {id} :
                        new.domainAnswers[other] =
                            assessmentState.domainAnswers[other]
                /\ new.questions = questions
                /\ new.mindsetAnswers = assessmentState.mindsetAnswers
                /\ new.selectedDomain = assessmentState.selectedDomain
                /\ new.phase = "domain-test"
                /\ IF i + 1 < Len(questions)
                   THEN /\ new.currentQuestion = i + 1
                        /\ last'.issued = 0
                        /\ inflight' = inflight
                   ELSE /\ last'.issued = 1
                        /\ loading'
                        /\ PhaseOf(new) = "Complete"
                        /\ \E r \in BagToSet(inflight') :
                              /\ r.kind = "evaluate"
                              /\ r.body.domain_answers = new.domainAnswers
                              /\ inflight' = inflight (+) SetToBag({r})
       /\ last'.op = "submitCompleteAssessmentResume" =>
            /\ assessmentState' = InitialAssessmentState
            /\ PhaseOf(assessmentState') = "Idle"]_vars

\* C18 witness: the last domain question was answered and the evaluate
\* request with the answers of both questions is in flight.
C18_Witness ==
    /\ last.op = "handleDomainAnswer"
    /\ last.issued = 1
    /\ PhaseOf(assessmentState) = "Complete"
    /\ \E r \in InFlight("evaluate") :
          DOMAIN r.body.domain_answers = {11, 12}


\* the names of the five domains
DomainNames == {domains[i] : i \in 1..Len(domains)}

\* C19: the step that takes a successful domain-questions response moves the
\* state to DomainTest with selectedDomain the domain that the input was
\* resolved to, question index 0, the returned questions as the question
\* list and no domain answers, and leaves mindsetAnswers exactly as it was
\* before the step.
C19_DomainSelected ==
    [][(last'.op = "handleDomainSelectionResume" /\ last'.outcome = "done") =>
        /\ \E r \in InFlight("domain-questions") :
              /\ inflight' = inflight (-) SetToBag({r})
              /\ r.body.domain \in DomainNames
              /\ assessmentState'.selectedDomain = r.body.domain
        /\ assessmentState'.phase = "domain-test"
        /\ assessmentState'.currentQuestion = 0
        /\ assessmentState'.domainAnswers = <<>>
        /\ \A questions \in DomainLists \cup {Undefined} :
              handleDomainSelectionResume(TRUE, questions) =>
                  assessmentState'.questions = questions
        /\ assessmentState'.mindsetAnswers = assessmentState.mindsetAnswers]_vars


\* the input has no leading number in 1..5, is no part of a domain name and
\* contains none
NamesNoDomain(input) ==
    /\ parseInt(input).nan \/ parseInt(input).val \notin 1..5
    /\ ~SubstringOfDomain(input)
    /\ ~ContainsDomain(input)

\* C20: in DomainSelection an input that names no domain leaves the
\* assessment state, the loading flag, the requests in flight and the timers
\* as they are, and appends exactly one message, the re-prompt.
C20_Reprompt ==
    [][(last'.op = "handleDomainSelection" /\ NamesNoDomain(last'.input)) =>
        /\ PhaseOf(assessmentState) = "DomainSelection"
        /\ UNCHANGED <<assessmentState, loading, inflight, timers>>
        /\ ~loading'
        /\ last'.issued = 0
        /\ last'.appended = 1
        /\ messagesLen' = Min(messagesLen + 1, MaxMsgs)
        /\ last'.outcome = "returned"]_vars

\* C20 witness: the input xyz was sent in DomainSelection and answered with
\* the re-prompt.
C20_Witness ==
    /\ last.op = "handleDomainSelection"
    /\ last.input = <<"x","y","z">>
    /\ last.outcome = "returned"
    /\ last.appended = 1
    /\ PhaseOf(assessmentState) = "DomainSelection"
    /\ assessmentState.selectedDomain = Null

\* C21: an answer response with completed: false and a next_question,
\* delivered to the mounted quiz, displays that question, sets questionNum to
\* its question_num, clears the selection and leaves the quiz step; an answer
\* response of any other shape that is not completed: true changes none of
\* the four.
C21_NextQuestion ==
    [][/\ \A num \in 1..(MaxTotal + 1) :
            (submitAnswerResume("next", num) /\ MountedResponse("answer")) =>
                /\ currentQuestion' = num
                /\ questionNum' = num
       /\ (last'.op = "submitAnswerResume" /\ last'.outcome = "done"
                /\ last'.issued = 0 /\ MountedResponse("answer")) =>
            /\ currentQuestion' # NoQuestion
            /\ questionNum' = currentQuestion'
            /\ selectedAnswer' = NoAnswer
            /\ step = "quiz" /\ step' = "quiz"
       /\ (last'.op = "submitAnswerResume" /\ last'.outcome = "caught"
                /\ MountedResponse("answer")) =>
            UNCHANGED <<currentQuestion, questionNum, selectedAnswer, step>>]_vars

\* C21 witness: question 2 is displayed with no selection after the answer
\* to question 1.
C21_Witness ==
    /\ last.op = "submitAnswerResume"
    /\ last.outcome = "done"
    /\ last.issued = 0
    /\ step = "quiz"
    /\ currentQuestion = 2
    /\ questionNum = 2
    /\ selectedAnswer = NoAnswer
    /\ ~quizLoading

\* the domains whose name has the input as a substring, case aside
MatchingDomains(input) ==
    {i \in 1..Len(domains) :
        includes(toLowerCase(domainChars[i]), toLowerCase(input))}

\* C22: an input without a leading number that is a substring of more than
\* one domain name resolves to the first of those domains in the order of
\* the domain list.
C22_FirstMatch ==
    (/\ last.op = "handleDomainSelection"
     /\ parseInt(last.input).nan
     /\ Cardinality(MatchingDomains(last.input)) > 1) =>
        \E i \in MatchingDomains(last.input) :
            /\ \A j \in MatchingDomains(last.input) : i <= j
            /\ Requested(domains[i])

\* C22 witness: sci, a part of Computer Science and of Social Sciences, was
\* resolved to Computer Science.
C22_Witness ==
    /\ last.op = "handleDomainSelection"
    /\ last.input = <<"s","c","i">>
    /\ MatchingDomains(last.input) = {1, 5}
    /\ Requested("Computer Science")

\* the input y, a part of Biology, Physics and Chemistry but not of Computer
\* Science, was resolved to Biology
FirstMatchIsNotFirstDomain ==
    /\ last.op = "handleDomainSelection"
    /\ last.input = <<"y">>
    /\ MatchingDomains(last.input) = {2, 3, 4}
    /\ Requested("Biology")

\* the option letters that the prompt of a question asks for, line 545
OptionLetters == { <<"A">>, <<"B">>, <<"C">>, <<"D">> }

\* every value of the map is an option letter
AllOptionLetters(answers) ==
    \A id \in DOMAIN answers : answers[id] \in OptionLetters

\* C23: every value stored in mindsetAnswers or domainAnswers is one of the
\* option letters A, B, C, D, and so is every value that an evaluate request
\* carries.
C23_OptionLetters ==
    /\ AllOptionLetters(assessmentState.mindsetAnswers)
    /\ AllOptionLetters(assessmentState.domainAnswers)
    /\ \A r \in InFlight("evaluate") :
          /\ AllOptionLetters(r.body.mindset_answers)
          /\ AllOptionLetters(r.body.domain_answers)

C25_NoChangeAfterClear ==
    [][/\ last.op = "clearChat" => assessmentState' = assessmentState
       /\ (assessmentState = InitialAssessmentState
                /\ assessmentState' # InitialAssessmentState) =>
            last'.op = "startAssessmentResume"]_vars

\* the ids of the questions of a list
QuestionIds(questions) == {questions[i] : i \in 1..Len(questions)}

\* C26: the evaluate request that the answer to the last domain question
\* sends carries an answer for each question of the mindset list and for no
\* other id, an answer for each question of the domain list and for no other
\* id, the last one included, and the domain that was selected, which is one
\* of the five.
C26_EvaluatePayload ==
    [][(last'.op = "handleDomainAnswer" /\ last'.issued = 1) =>
        \E r \in InFlight("evaluate")' :
            /\ inflight' = inflight (+) SetToBag({r})
            /\ \E questions \in MindsetLists \ {<<>>} :
                  DOMAIN r.body.mindset_answers = QuestionIds(questions)
            /\ assessmentState.questions \in DomainLists \ {<<>>}
            /\ DOMAIN r.body.domain_answers =
                    QuestionIds(assessmentState.questions)
            /\ r.body.domain_answers[
                    assessmentState.questions[Len(assessmentState.questions)]] =
                        toUpperCase(last'.input)
            /\ r.body.domain \in DomainNames
            /\ r.body.domain = assessmentState.selectedDomain]_vars

\* C26 witness: the evaluate request for Physics with two mindset answers
\* and two domain answers is in flight.
C26_Witness ==
    /\ last.op = "handleDomainAnswer"
    /\ last.issued = 1
    /\ \E r \in InFlight("evaluate") :
          /\ r.body.domain = "Physics"
          /\ DOMAIN r.body.mindset_answers = {1, 2}
          /\ DOMAIN r.body.domain_answers = {11, 12}
          /\ r.body.domain_answers[12] = <<"X", "Y">>

\* C27: an answer is recorded for a question only when the prompt of that
\* question is in the transcript and has no answer yet.
C27_AnswerAfterPrompt ==
    [][(last'.op \in {"handleMindsetAnswer", "handleDomainAnswer"}
            /\ last'.outcome = "done") =>
        assessmentState.questions[assessmentState.currentQuestion + 1]
            \in unanswered]_vars

\* C28: once an answer response of the run said completed: true, which is
\* when the run sends a results request, the quiz sends no further answer
\* request in that run.
C28_NoAnswerAfterCompleted ==
    [][(last'.op = "submitAnswer" /\ last'.issued = 1) =>
        resultsIssued = 0]_vars

\* the handler of the phase
PhaseHandler(phase) ==
    CASE phase = "mindset" -> "handleMindsetAnswer"
      [] phase = "domain-selection" -> "handleDomainSelection"
      [] phase = "domain-test" -> "handleDomainAnswer"
      [] OTHER -> "sendMessage"

AskRequests(bag) ==
    BagCardinality([r \in {q \in BagToSet(bag) : q.kind = "ask"} |-> bag[r]])

\* C29: in the newer widget an accepted input, one that is not blank and is
\* sent while loading is false, is handled by the handler of the phase and
\* sends nothing to /api/ask while an assessment is active, and appends one
\* user message and sends one /api/ask request, leaving the assessment state
\* alone, while none is active; no other step sends an /api/ask request.
C29_InputRouting ==
    [][variant = "chat" =>
        /\ (last'.op \in ChatInputOps
                /\ ~IsBlank(last'.input) /\ ~loading) =>
            IF assessmentState.active
            THEN /\ last'.op = PhaseHandler(assessmentState.phase)
                 /\ last'.op # "sendMessage"
                 /\ AskRequests(inflight') = AskRequests(inflight)
            ELSE /\ last'.op = "sendMessage"
                 /\ last'.outcome = "done"
                 /\ last'.appended = 1
                 /\ last'.issued = 1
                 /\ AskRequests(inflight') = AskRequests(inflight) + 1
                 /\ loading'
                 /\ assessmentState' = assessmentState
        /\ AskRequests(inflight') > AskRequests(inflight) =>
            /\ last'.op = "sendMessage"
            /\ ~assessmentState.active
            /\ ~loading]_vars

\* C29 witness: with no assessment active the text hi was sent to /api/ask.
C29_Witness ==
    /\ variant = "chat"
    /\ last.op = "sendMessage"
    /\ last.input = <<"h","i">>
    /\ last.issued = 1
    /\ ~assessmentState.active
    /\ InFlight("ask") # {}

\* C30: when every request is answered successfully and the user keeps
\* answering without clearing or closing, a started quiz reaches the results
\* step, a started assessment sends its evaluate request and is Idle again
\* afterwards, and whenever a loading flag is set it is cleared again.
C30_Completes ==
    /\ (\E r \in BagToSet(quizInflight) : r.kind = "start")
            ~> (step = "results" /\ results = "scored")
    /\ (InFlight("start") # {}) ~> (evalIssued >= 1)
    /\ (InFlight("start") # {})
            ~> (evalIssued >= 1 /\ PhaseOf(assessmentState) = "Idle")
    /\ loading ~> ~loading
    /\ quizLoading ~> ~quizLoading

\* C30 witness: the assessment is Idle again after the successful response
\* of its one evaluate request, with nothing in flight.
C30_Witness ==
    /\ last.op = "submitCompleteAssessmentResume"
    /\ last.outcome = "done"
    /\ evalIssued = 1
    /\ assessmentState = InitialAssessmentState
    /\ inflight = EmptyBag
    /\ ~loading

====
